---- MODULE Spec2Model ----
(***************************************************************************)
(* Model of the lvp package: the adaptive keyframe timestamp selector, the *)
(* processing pipeline that assembles a package, and the .lvp container    *)
(* (save / load).                                                          *)
(*                                                                         *)
(* Timestamps are Python floats in the source.  They are modelled as exact *)
(* rationals in lowest terms, [n |-> numerator, d |-> denominator], so     *)
(* that duration / target_count, i * uniform_interval and the min_gap test *)
(* are computed as the code computes them, up to float rounding.           *)
(* Optional values (None or a value) are modelled as a sequence of length  *)
(* 0 or 1.                                                                 *)
(***************************************************************************)
EXTENDS Integers, Sequences, FiniteSets, TLC

VARIABLES
    rawPts,     \* the pts_time values parsed from the scene filter's output
    selIn,      \* arguments of a call of _select_keyframe_timestamps
    selOut,     \* None, or the list the call returned
    pkg,        \* None, or the LVPPackage object at hand
    fs,         \* the files on disk: path -> None or an archive
    loose,      \* loose frame files on disk: path -> None or bytes
    writer,     \* per path: None, or the package state save() wrote there
    src,        \* None, or what pkg was loaded from
    outcome,    \* the last call: operation, exception, file read, package returned
    saves       \* number of save() calls so far

vars == <<rawPts, selIn, selOut, pkg, fs, loose, writer, src, outcome, saves>>

(***************************************************************************)
(* Bounds of the model.                                                    *)
(***************************************************************************)
MaxDuration == 4     \* video durations 0..MaxDuration seconds
MaxTime == 5         \* scene cuts are reported at 0..MaxTime seconds
MaxCuts == 4         \* at most MaxCuts pts_time lines in the filter output
MaxTarget == 6       \* explicit target_keyframes 0..MaxTarget

None == <<>>
Some(v) == <<v>>

MaxVideoCuts == 1     \* pts_time lines of the processed video
MaxVideoTime == 2     \* their values, in seconds
MaxVideoDuration == 2 \* duration of the processed video
MaxVideoTarget == 2   \* explicit target_keyframes of process()
MaxClock == 1         \* readings of datetime.now()
MaxSaves == 2         \* save() calls in one run
MaxFrames == 2        \* frames of a directly constructed package, the large one apart
MaxArchiveSize == 3   \* bytes os.path.getsize reports for an archive

ArchivePaths == {<<"a", ".lvp">>, <<"b", ".lvp">>}
SaveArgs == {<<"a">>, <<"b", ".lvp">>}
Paths == ArchivePaths \cup SaveArgs
LoosePaths == {"f0", "f1"}

NoFiles == [p \in Paths |-> None]

(***************************************************************************)
(* Exact rational arithmetic standing for Python float arithmetic.         *)
(***************************************************************************)
RECURSIVE GCD(_, _)
GCD(a, b) == IF b = 0 THEN a ELSE GCD(b, a % b)

Abs(x) == IF x < 0 THEN -x ELSE x

Rat(n, d) ==
    IF n = 0 THEN [n |-> 0, d |-> 1]
    ELSE LET g == GCD(Abs(n), d) IN [n |-> n \div g, d |-> d \div g]

RInt(i) == [n |-> i, d |-> 1]
RLess(a, b) == a.n * b.d < b.n * a.d
RLeq(a, b) == a.n * b.d <= b.n * a.d
RSub(a, b) == Rat(a.n * b.d - b.n * a.d, a.d * b.d)
RAbs(a) == [n |-> Abs(a.n), d |-> a.d]
RDivInt(a, k) == Rat(a.n, a.d * k)
RMulInt(k, a) == Rat(k * a.n, a.d)
RFloor(a) == a.n \div a.d

Max(a, b) == IF a >= b THEN a ELSE b

\* sorted(S) for a set S of floats
RECURSIVE SortedOfSet(_)
SortedOfSet(S) ==
    IF S = {} THEN <<>>
    ELSE LET m == CHOOSE x \in S : \A y \in S : RLeq(x, y)
         IN <<m>> \o SortedOfSet(S \ {m})

Range(s) == {s[i] : i \in 1..Len(s)}

(***************************************************************************)
(* Device profiles (processor.py DEVICE_PROFILES).                         *)
(***************************************************************************)
DEVICE_PROFILES ==
    [minimal  |-> [name |-> "minimal",  keyframes_per_minute |-> 6,
                   resolution |-> <<384, 216>>],
     balanced |-> [name |-> "balanced", keyframes_per_minute |-> 12,
                   resolution |-> <<512, 288>>],
     quality  |-> [name |-> "quality",  keyframes_per_minute |-> 20,
                   resolution |-> <<640, 360>>],
     maximum  |-> [name |-> "maximum",  keyframes_per_minute |-> 30,
                   resolution |-> <<854, 480>>]]

ProfileNames == DOMAIN DEVICE_PROFILES

(***************************************************************************)
(* _detect_scenes: [0.0] plus every parsed pts_time, as sorted(set(...)).  *)
(***************************************************************************)
DetectScenes(pts) == SortedOfSet({RInt(0)} \cup {RInt(pts[i]) : i \in 1..Len(pts)})

(***************************************************************************)
(* _select_keyframe_timestamps(duration, scene_times, target_count).       *)
(* target is None or Some(count); kpm is profile.keyframes_per_minute.     *)
(***************************************************************************)
\* a target count without the max(1, ...) clamp
TargetCountUnclamped(duration, target, kpm) == IF target = None THEN RFloor(RMulInt(kpm, RDivInt(duration, 60))) ELSE target[1]

\* a target count that forgets to scale keyframes_per_minute by the minutes
TargetCountUnscaled(duration, target, kpm) == IF target = None THEN Max(1, kpm) ELSE target[1]

TargetCount(duration, target, kpm) ==
    IF target = None
    THEN Max(1, RFloor(RMulInt(kpm, RDivInt(duration, 60))))
    ELSE target[1]

MinGap(duration, tc) == IF tc > 0 THEN RDivInt(duration, tc * 2) ELSE RInt(1)

\* the loop over range(target_count): candidate i is added unless some
\* already selected timestamp is closer than min_gap
\* a fill that admits every candidate, however close to a selected one
UniformFillAll(selected, i, tc, interval, min_gap) == selected \cup {RMulInt(k, interval) : k \in i..(tc - 1)}

RECURSIVE UniformFill(_, _, _, _, _)
UniformFill(selected, i, tc, interval, min_gap) ==
    IF i >= tc THEN selected
    ELSE LET ts == RMulInt(i, interval)
             too_close == \E s \in selected : RLess(RAbs(RSub(ts, s)), min_gap)
         IN UniformFill(IF too_close THEN selected ELSE selected \cup {ts},
                        i + 1, tc, interval, min_gap)

AfterFill(duration, scene_times, tc) ==
    IF tc > 0
    THEN UniformFill(Range(scene_times), 0, tc, RDivInt(duration, tc),
                     MinGap(duration, tc))
    ELSE Range(scene_times)

\* s[::step][:keep]
Strided(s, step, keep) ==
    LET cnt == (Len(s) + step - 1) \div step
        m == IF cnt < keep THEN cnt ELSE keep
    IN [k \in 1..m |-> s[(k - 1) * step + 1]]

\* len(selected) > target_count * 1.5
ThinningApplies(count, tc) == 2 * count > 3 * tc

\* a thinning step that takes every second sample, whatever keep_count
KeepEverySecond(non_scene, keep_count) == Strided(non_scene, 2, Len(non_scene))

\* a thinning step that forgets to subsample
KeepAllNonScene(non_scene, keep_count) == non_scene

KeepNonScene(non_scene, keep_count) ==
    IF keep_count > 0 /\ Len(non_scene) > keep_count
    THEN Strided(non_scene, Max(1, Len(non_scene) \div keep_count), keep_count)
    ELSE non_scene

\* a thinning step that truncates the sorted list, boundaries included
ThinKeepFirst(selected, scene_times, tc) == SubSeq(selected, 1, tc)

Thin(selected, scene_times, tc) ==
    LET scene_set == Range(scene_times)
        non_scene == SelectSeq(selected, LAMBDA t : t \notin scene_set)
        keep_count == Max(0, tc - Len(scene_times))
    IN SortedOfSet(scene_set \cup Range(KeepNonScene(non_scene, keep_count)))

SelectKeyframeTimestamps(duration, scene_times, target, kpm) ==
    LET tc == TargetCount(duration, target, kpm)
        selected == SortedOfSet(AfterFill(duration, scene_times, tc))
    IN IF ThinningApplies(Len(selected), tc)
       THEN Thin(selected, scene_times, tc)
       ELSE selected

\* the divisors of the divisions the call executes: a 0 among them is a
\* ZeroDivisionError
SelectDivisors(duration, scene_times, target, kpm) ==
    LET tc == TargetCount(duration, target, kpm)
        selected == SortedOfSet(AfterFill(duration, scene_times, tc))
        non_scene == SelectSeq(selected, LAMBDA t : t \notin Range(scene_times))
        keep_count == Max(0, tc - Len(scene_times))
    IN (IF target = None THEN {60} ELSE {})
       \cup (IF tc > 0 THEN {tc * 2, tc} ELSE {})
       \cup (IF /\ ThinningApplies(Len(selected), tc)
                /\ keep_count > 0
                /\ Len(non_scene) > keep_count
             THEN {keep_count} ELSE {})

(***************************************************************************)
(* Text is a sequence of tokens whose first token is its first character.  *)
(***************************************************************************)
EmptyText == <<>>
WhisperMissingText == <<"[", "Whisper not installed", "]">>
WhisperMissingSegmentText ==
    <<"[", "Whisper not installed - run: pip install openai-whisper", "]">>
SpokenText == <<"h", "ello">>

StartsWithBracket(text) == Len(text) > 0 /\ text[1] = "["

(***************************************************************************)
(* A JSON object is a record whose keys hold None (key missing) or         *)
(* Some(value).  d.get(key, default):                                      *)
(***************************************************************************)
Get(opt, default) == IF opt = None THEN default ELSE opt[1]

DefaultTranscript ==
    [segments |-> Some(<<>>), full_text |-> Some(EmptyText), language |-> Some("unknown")]

\* the placeholder _extract_transcript returns when whisper cannot be imported
WhisperMissingTranscript ==
    [segments |-> Some(<<[start |-> 0, end |-> 0, text |-> WhisperMissingSegmentText,
                          confidence |-> 0, aligned_keyframes |-> <<>>]>>),
     full_text |-> Some(WhisperMissingText),
     language |-> Some("unknown")]

\* a result of whisper's transcribe()
SpokenTranscript ==
    [segments |-> Some(<<[start |-> 0, end |-> 1, text |-> SpokenText,
                          confidence |-> 1, aligned_keyframes |-> <<>>]>>),
     full_text |-> Some(SpokenText),
     language |-> Some("en")]

EmptyObject == [segments |-> None, full_text |-> None, language |-> None]

\* bool(d) of a dict
Truthy(d) == d # EmptyObject

(***************************************************************************)
(* LVPPackage                                                              *)
(***************************************************************************)
LVP_VERSION == "1.0"

\* __init__; transcript and scenes are None or Some(value), now is the
\* reading of datetime.now()
NewPackage(source_filename, source_duration, source_resolution, source_size, keyframe_paths, keyframe_timestamps, keyframe_resolution, transcript, scenes, profile_name, processing_time, keyframe_data, lvp_path, now) ==
    [source_filename |-> source_filename,
     source_duration |-> source_duration,
     source_resolution |-> source_resolution,
     source_size |-> source_size,
     keyframe_timestamps |-> keyframe_timestamps,
     keyframe_resolution |-> keyframe_resolution,
     transcript_data |-> IF transcript # None /\ Truthy(transcript[1])
                         THEN transcript[1] ELSE DefaultTranscript,
     scenes |-> IF scenes # None /\ scenes[1] # <<>> THEN scenes[1] ELSE <<>>,
     profile_name |-> profile_name,
     processing_time |-> processing_time,
     created_at |-> now,
     keyframe_data |-> keyframe_data,
     keyframe_paths |-> keyframe_paths,
     lvp_path |-> lvp_path]

keyframe_count(p) == Len(p.keyframe_timestamps)

scene_count(p) == Len(p.scenes)

\* a has_transcript that takes any non-empty text for speech
HasAnyText(p) == Get(p.transcript_data.full_text, EmptyText) # EmptyText

has_transcript(p) ==
    LET text == Get(p.transcript_data.full_text, EmptyText)
    IN text # EmptyText /\ ~StartsWithBracket(text)

(***************************************************************************)
(* Archive entry names.  A keyframe entry keyframes/frame_<digits>.webp is *)
(* held as the character codes of <digits> followed by the code of the     *)
(* '.' that starts the extension: the prefix is common to all of them, so  *)
(* Python's string order on the names is the order of these sequences.     *)
(***************************************************************************)
PadWidth == 4
CharZero == 48
CharDot == 46

RECURSIVE Digits(_)
Digits(i) == IF i < 10 THEN <<i>> ELSE Append(Digits(i \div 10), i % 10)

\* f'{i:04d}'
ZeroPadded(i) ==
    LET ds == Digits(i)
        pad == IF Len(ds) < PadWidth THEN PadWidth - Len(ds) ELSE 0
    IN [k \in 1..(pad + Len(ds)) |-> CharZero + (IF k <= pad THEN 0 ELSE ds[k - pad])]

\* f'keyframes/frame_{i:04d}.webp'
FrameName(i) == Append(ZeroPadded(i), CharDot)

\* str.__lt__
RECURSIVE StrLess(_, _, _)
StrLess(a, b, k) ==
    IF k > Len(a) THEN k <= Len(b)
    ELSE IF k > Len(b) THEN FALSE
    ELSE IF a[k] # b[k] THEN a[k] < b[k]
    ELSE StrLess(a, b, k + 1)

\* the keyframe entries of an archive in sorted(namelist()) order
SortedFrames(entries) ==
    LET sorted == SortSeq(entries, LAMBDA x, y : StrLess(x.name, y.name, 1))
    IN [k \in 1..Len(sorted) |-> sorted[k].data]

\* a get_keyframes() that prefers the loose files to the backing archive
GetKeyframesLooseFirst(p, files, looseFiles) ==
    IF p.keyframe_data # None THEN p.keyframe_data[1]
    ELSE IF p.keyframe_paths # <<>>
    THEN LET existing == SelectSeq(p.keyframe_paths, LAMBDA f : looseFiles[f] # None)
         IN [k \in 1..Len(existing) |-> looseFiles[existing[k]][1]]
    ELSE IF p.lvp_path # None /\ files[p.lvp_path[1]] # None
    THEN SortedFrames(files[p.lvp_path[1]][1].keyframes)
    ELSE <<>>

\* get_keyframes(): in-memory data, else the backing archive, else the
\* loose files that exist, else nothing
get_keyframes(p, files, looseFiles) ==
    IF p.keyframe_data # None THEN p.keyframe_data[1]
    ELSE IF p.lvp_path # None /\ files[p.lvp_path[1]] # None
    THEN SortedFrames(files[p.lvp_path[1]][1].keyframes)
    ELSE IF p.keyframe_paths # <<>>
    THEN LET existing == SelectSeq(p.keyframe_paths, LAMBDA f : looseFiles[f] # None)
         IN [k \in 1..Len(existing) |-> looseFiles[existing[k]][1]]
    ELSE <<>>

to_manifest(p) ==
    [lvp_version |-> LVP_VERSION,
     created_at |-> p.created_at,
     source |-> [filename |-> p.source_filename,
                 duration_seconds |-> p.source_duration,
                 original_resolution |-> p.source_resolution,
                 original_size_bytes |-> p.source_size],
     processing |-> [device_profile |-> p.profile_name,
                     processing_time_seconds |-> p.processing_time,
                     keyframe_method |-> "scene_adaptive",
                     keyframe_timestamps |-> p.keyframe_timestamps],
     content |-> [keyframe_count |-> keyframe_count(p),
                  keyframe_resolution |-> p.keyframe_resolution,
                  has_transcript |-> has_transcript(p),
                  scene_count |-> scene_count(p)]]

(***************************************************************************)
(* The container.  An archive holds the three JSON entries, each absent,   *)
(* unparsable or a JSON object, and the keyframe entries in the order they *)
(* were written.  The keys load() reads with .get may be missing.          *)
(***************************************************************************)
AbsentEntry == [kind |-> "absent", doc |-> None]
GarbageEntry == [kind |-> "garbage", doc |-> None]
JsonEntry(doc) == [kind |-> "json", doc |-> Some(doc)]

\* json.dumps(self.to_manifest())
ManifestDoc(m) ==
    [lvp_version |-> m.lvp_version,
     created_at |-> Some(m.created_at),
     source |-> m.source,
     processing |-> [device_profile |-> Some(m.processing.device_profile),
                     processing_time_seconds |-> Some(m.processing.processing_time_seconds),
                     keyframe_method |-> m.processing.keyframe_method,
                     keyframe_timestamps |-> Some(m.processing.keyframe_timestamps)],
     content |-> m.content]

\* '.lvp' is appended to a path that does not end with it
LvpSuffix == ".lvp"
OutputPath(path) == IF path[Len(path)] = LvpSuffix THEN path ELSE Append(path, LvpSuffix)

\* the archive save() writes
SavedArchive(p, files, looseFiles) ==
    LET keyframes == get_keyframes(p, files, looseFiles)
    IN [manifest |-> JsonEntry(ManifestDoc(to_manifest(p))),
        keyframes |-> [i \in 1..Len(keyframes) |->
                          [name |-> FrameName(i - 1), data |-> keyframes[i]]],
        transcript |-> JsonEntry(p.transcript_data),
        scenes |-> JsonEntry([scenes |-> Some(p.scenes)])]

\* json.loads(lvp.read(name)): the exception raised, "none" if none
ReadJson(entry) ==
    IF entry.kind = "absent" THEN "KeyError"
    ELSE IF entry.kind = "garbage" THEN "JSONDecodeError"
    ELSE "none"

\* a load() that does not insist on transcript.json
LoadErrorLenient(file) ==
    IF file = None THEN "FileNotFoundError"
    ELSE LET a == file[1]
         IN IF ReadJson(a.manifest) # "none" THEN ReadJson(a.manifest)
            ELSE IF a.transcript.kind = "garbage" THEN "JSONDecodeError"
            ELSE ReadJson(a.scenes)

\* the exception load() raises on the file, "none" if it raises none
LoadError(file) ==
    IF file = None THEN "FileNotFoundError"
    ELSE LET a == file[1]
         IN IF ReadJson(a.manifest) # "none" THEN ReadJson(a.manifest)
            ELSE IF ReadJson(a.transcript) # "none" THEN ReadJson(a.transcript)
            ELSE ReadJson(a.scenes)

\* the package load() returns for an archive that raises nothing
LoadedPackage(a, lvp_path, now) ==
    LET manifest == a.manifest.doc[1]
        made == NewPackage(manifest.source.filename,
                           manifest.source.duration_seconds,
                           manifest.source.original_resolution,
                           manifest.source.original_size_bytes,
                           <<>>,
                           Get(manifest.processing.keyframe_timestamps, <<>>),
                           manifest.content.keyframe_resolution,
                           a.transcript.doc,
                           Some(Get(a.scenes.doc[1].scenes, <<>>)),
                           Get(manifest.processing.device_profile, "unknown"),
                           Get(manifest.processing.processing_time_seconds, 0),
                           Some(SortedFrames(a.keyframes)),
                           Some(lvp_path),
                           now)
    IN [made EXCEPT !.created_at = Get(manifest.created_at, 0)]

(***************************************************************************)
(* LVPProcessor.process                                                    *)
(***************************************************************************)
\* an extraction loop that gives up at the first failed frame
ExtractUntilFailure(timestamps, failed) == [k \in 1..Cardinality({n \in 1..Len(timestamps) : \A m \in 0..(n - 1) : m \notin failed}) |-> k - 1]

\* _extract_keyframes: the indices i of the timestamps whose frame file
\* frame_<i>.webp was produced, in order; failed holds the others
ExtractKeyframes(timestamps, failed) ==
    SelectSeq([k \in 1..Len(timestamps) |-> k - 1], LAMBDA i : i \notin failed)

\* the scene records built from the boundaries, the duration and the
\* selected timestamps
BuildScenes(scene_times, duration, timestamps) ==
    LET ends == Append(Tail(scene_times), duration)
        indices == [k \in 1..Len(timestamps) |-> k - 1]
    IN [i \in 1..Len(scene_times) |->
           [scene_id |-> i - 1,
            start_time |-> scene_times[i],
            end_time |-> ends[i],
            keyframe_indices |->
                SelectSeq(indices, LAMBDA j : /\ RLeq(scene_times[i], timestamps[j + 1])
                                              /\ RLess(timestamps[j + 1], ends[i]))]]

\* os.path.basename(video_path), and what the probe and os.path.getsize
\* report for the video file
SourceFilename == "video.mp4"
SourceResolution == <<1920, 1080>>
SourceSize == 1000 * 1000

\* the package process() returns: the frame read from frame_<i>.webp is
\* written i, the image taken at timestamps[i]
ProcessPackage(prof, duration, pts, target, failed, transcript, elapsed, now) ==
    LET profile == DEVICE_PROFILES[prof]
        scene_times == DetectScenes(pts)
        timestamps == SelectKeyframeTimestamps(duration, scene_times, target,
                                               profile.keyframes_per_minute)
        keyframe_paths == ExtractKeyframes(timestamps, failed)
        scenes == BuildScenes(scene_times, duration, timestamps)
    IN NewPackage(SourceFilename, duration, SourceResolution, SourceSize,
                  <<>>, timestamps, profile.resolution, transcript, Some(scenes),
                  profile.name, elapsed, Some(keyframe_paths), None, now)

\* the exception process() raises for the video, "none" if it raises none
ProcessError(video) ==
    IF video = "missing" THEN "FileNotFoundError"
    ELSE IF video = "unreadable" THEN "RuntimeError"
    ELSE IF video = "no_video_stream" THEN "ValueError"
    ELSE "none"

(***************************************************************************)
(* The selector as a function: the scene filter prints some pts_time       *)
(* values, process() calls the selector on the detected boundaries.        *)
(***************************************************************************)
\* showinfo prints the selected frames in presentation order
RECURSIVE NonDecreasing(_)
NonDecreasing(len) ==
    IF len = 0 THEN {<<>>}
    ELSE {Append(s, t) : s \in {x \in NonDecreasing(len - 1) : Len(x) = len - 1},
                         t \in 0..MaxTime}
         \cup NonDecreasing(len - 1)

RawOutputs ==
    {s \in NonDecreasing(MaxCuts) : \A i \in 1..(Len(s) - 1) : s[i] <= s[i + 1]}

Targets == {None} \cup {Some(k) : k \in 0..MaxTarget}

NoCall == [op |-> "none", err |-> "none", file |-> None, ret |-> None]

InitIdle ==
    /\ selIn = None
    /\ selOut = None
    /\ pkg = None
    /\ src = None
    /\ outcome = NoCall
    /\ saves = 0

InitSelect ==
    /\ rawPts \in RawOutputs
    /\ InitIdle
    /\ fs = NoFiles
    /\ loose = [p \in LoosePaths |-> None]
    /\ writer = NoFiles

CallSelect ==
    /\ selIn = None
    /\ \E duration \in 0..MaxDuration, target \in Targets, prof \in ProfileNames :
          selIn' = Some([duration |-> RInt(duration),
                         scene_times |-> DetectScenes(rawPts),
                         target |-> target,
                         kpm |-> DEVICE_PROFILES[prof].keyframes_per_minute])
    /\ UNCHANGED <<rawPts, selOut, pkg, fs, loose, writer, src, outcome, saves>>

ReturnSelect ==
    /\ selIn # None
    /\ selOut = None
    /\ selOut' = Some(SelectKeyframeTimestamps(selIn[1].duration, selIn[1].scene_times,
                                               selIn[1].target, selIn[1].kpm))
    /\ UNCHANGED <<rawPts, selIn, pkg, fs, loose, writer, src, outcome, saves>>

NextSelect == CallSelect \/ ReturnSelect

SpecSelect == InitSelect /\ [][NextSelect]_vars

\* shorthands for the finished call
SelDone == selIn # None /\ selOut # None
SelTc == TargetCount(selIn[1].duration, selIn[1].target, selIn[1].kpm)
SelThinned ==
    ThinningApplies(Cardinality(AfterFill(selIn[1].duration, selIn[1].scene_times, SelTc)),
                    SelTc)

\* C8: every scene boundary strictly below the duration is in the returned
\* list, whether or not thinning was applied.
C8_BoundariesKept ==
    SelDone =>
        \A s \in Range(selIn[1].scene_times) :
            RLess(s, selIn[1].duration) => s \in Range(selOut[1])

\* C8 witness: thinning was applied and a boundary after 0.0 and below the
\* duration is in the output.
C8_Witness ==
    /\ SelDone
    /\ SelThinned
    /\ \E s \in Range(selIn[1].scene_times) :
          /\ s # RInt(0)
          /\ RLess(s, selIn[1].duration)
          /\ s \in Range(selOut[1])

C10_InRangeAscending ==
    SelDone =>
        /\ \A i \in 1..Len(selOut[1]) :
              /\ RLeq(RInt(0), selOut[1][i])
              /\ \/ RLess(selOut[1][i], selIn[1].duration)
                 \/ (selIn[1].duration = RInt(0) /\ selOut[1][i] = RInt(0))
        /\ \A i \in 1..(Len(selOut[1]) - 1) : RLess(selOut[1][i], selOut[1][i + 1])

\* shorthands: the sorted list after the uniform fill, the entries of a
\* list that are no scene boundary, and keepCount
SelFilled == SortedOfSet(AfterFill(selIn[1].duration, selIn[1].scene_times, SelTc))
SelNonScene(list) == SelectSeq(list, LAMBDA t : t \notin Range(selIn[1].scene_times))
SelKeep == Max(0, SelTc - Len(selIn[1].scene_times))
SelGap == MinGap(selIn[1].duration, SelTc)

\* C22: when the list after the fill has more than 1.5 x targetCount
\* entries, the result holds every scene boundary and at most keepCount
\* other timestamps, the first keepCount at stride
\* max(1, nonBoundaryCount / keepCount); with numBoundaries >= targetCount
\* it holds no other timestamp.
C22_ThinningRule ==
    (SelDone /\ SelThinned) =>
        LET kept == SelNonScene(selOut[1])
            non_scene == SelNonScene(SelFilled)
        IN /\ Range(selIn[1].scene_times) \subseteq Range(selOut[1])
           /\ Len(kept) <= SelKeep
           /\ SelKeep > 0 =>
                 kept = Strided(non_scene, Max(1, Len(non_scene) \div SelKeep), SelKeep)
           /\ Len(selIn[1].scene_times) >= SelTc => kept = <<>>

\* The selector called by process() under the default profile, with or
\* without target_keyframes.
DefaultProfile == "balanced"

CallDefault ==
    /\ selIn = None
    /\ \E duration \in 0..MaxDuration, target \in Targets :
          selIn' = Some([duration |-> RInt(duration),
                         scene_times |-> DetectScenes(rawPts),
                         target |-> target,
                         kpm |-> DEVICE_PROFILES[DefaultProfile].keyframes_per_minute])
    /\ UNCHANGED <<rawPts, selOut, pkg, fs, loose, writer, src, outcome, saves>>

NextDefault == CallDefault \/ ReturnSelect

SpecDefault == InitSelect /\ [][NextDefault]_vars

\* C23: with targetCount > 0, every returned timestamp that is no scene
\* boundary is at least minGap away from every other returned timestamp.
C23_MinSpacing ==
    (SelDone /\ SelTc > 0) =>
        \A i, j \in 1..Len(selOut[1]) :
            (i # j /\ selOut[1][i] \notin Range(selIn[1].scene_times))
                => ~RLess(RAbs(RSub(selOut[1][i], selOut[1][j])), SelGap)

\* C23 witness: a candidate was rejected for being too close to a boundary
\* and another one was returned next to a boundary after 0.0.
C23_Witness ==
    /\ SelDone
    /\ SelTc > 0
    /\ \E k \in 1..(SelTc - 1) :
          LET ts == RMulInt(k, RDivInt(selIn[1].duration, SelTc))
          IN /\ ts \notin Range(SelFilled)
             /\ \E s \in Range(selIn[1].scene_times) : RLess(RAbs(RSub(ts, s)), SelGap)
    /\ SelNonScene(selOut[1]) # <<>>
    /\ Len(selIn[1].scene_times) >= 2

\* C24: with an explicit targetCount of 0 no uniform fill is made and the
\* result is exactly the sorted distinct scene boundaries.
C24_ZeroTarget ==
    (SelDone /\ selIn[1].target = Some(0)) =>
        /\ AfterFill(selIn[1].duration, selIn[1].scene_times, SelTc)
              = Range(selIn[1].scene_times)
        /\ selOut[1] = selIn[1].scene_times

\* C24 witness: with target 0 and a positive duration, several boundaries
\* were returned.
C24_Witness ==
    /\ SelDone
    /\ selIn[1].target = Some(0)
    /\ RLess(RInt(0), selIn[1].duration)
    /\ Len(selIn[1].scene_times) >= 2
    /\ selOut[1] = selIn[1].scene_times

\* C27: when thinning is triggered and there are fewer distinct scene
\* boundaries than targetCount, the result has exactly targetCount
\* timestamps: every boundary and targetCount - numBoundaries others.
C27_ThinnedToTarget ==
    (SelDone /\ SelThinned /\ Len(selIn[1].scene_times) < SelTc) =>
        /\ Len(selOut[1]) = SelTc
        /\ Range(selIn[1].scene_times) \subseteq Range(selOut[1])
        /\ Len(SelNonScene(selOut[1])) = SelTc - Len(selIn[1].scene_times)

\* C27 witness: thinning subsampled at least three non-boundary timestamps
\* down to keepCount.
C27_Witness ==
    /\ SelDone
    /\ SelThinned
    /\ Len(selIn[1].scene_times) < SelTc
    /\ Len(SelNonScene(SelFilled)) >= 3
    /\ Len(SelNonScene(selOut[1])) = SelKeep
    /\ SelKeep < Len(SelNonScene(SelFilled))

(***************************************************************************)
(* Packages and archives: the operations on the state.                     *)
(***************************************************************************)
VideoCuts ==
    {s \in UNION {[1..len -> 0..MaxVideoTime] : len \in 0..MaxVideoCuts} :
        \A i \in 1..(Len(s) - 1) : s[i] <= s[i + 1]}

VideoKinds == {"missing", "unreadable", "no_video_stream", "ok"}

\* _extract_transcript returns None, the placeholder or whisper's result
TranscriptResults == {None, Some(WhisperMissingTranscript), Some(SpokenTranscript)}

Process ==
    /\ pkg = None
    /\ \E video \in VideoKinds :
          IF ProcessError(video) # "none"
          THEN /\ outcome' = [op |-> "process", err |-> ProcessError(video),
                              file |-> None, ret |-> None]
               /\ UNCHANGED pkg
          ELSE \E prof \in ProfileNames, duration \in 0..MaxVideoDuration,
                  target \in {None} \cup {Some(k) : k \in 0..MaxVideoTarget},
                  include_transcript \in BOOLEAN,
                  extracted \in TranscriptResults, now \in 1..MaxClock :
                  LET count == Len(SelectKeyframeTimestamps(
                                      RInt(duration), DetectScenes(rawPts), target,
                                      DEVICE_PROFILES[prof].keyframes_per_minute))
                  IN \E failed \in SUBSET (0..(count - 1)) :
                        LET made == ProcessPackage(
                                        prof, RInt(duration), rawPts, target, failed,
                                        IF include_transcript THEN extracted ELSE None,
                                        0, now)
                        IN /\ pkg' = Some(made)
                           /\ outcome' = [op |-> "process", err |-> "none",
                                          file |-> None, ret |-> Some(made)]
    /\ src' = None
    /\ UNCHANGED <<rawPts, selIn, selOut, fs, loose, writer, saves>>

\* a save() that stamps the package with a new creation time
SaveRestamping ==
    /\ pkg # None
    /\ saves < MaxSaves
    /\ \E path \in SaveArgs :
          LET output_path == OutputPath(path)
          IN /\ fs' = [fs EXCEPT ![output_path] = Some(SavedArchive(pkg[1], fs, loose))]
             /\ pkg' = Some([pkg[1] EXCEPT !.lvp_path = Some(output_path),
                                           !.created_at = @ + 1])
             /\ writer' = [writer EXCEPT ![output_path] =
                              Some([pkg |-> pkg[1],
                                    from |-> IF src = None THEN None ELSE src[1].file])]
             /\ outcome' = [op |-> "save", err |-> "none", file |-> None, ret |-> None]
    /\ saves' = saves + 1
    /\ UNCHANGED <<rawPts, selIn, selOut, loose, src>>

Save ==
    /\ pkg # None
    /\ saves < MaxSaves
    /\ \E path \in SaveArgs :
          LET output_path == OutputPath(path)
          IN /\ fs' = [fs EXCEPT ![output_path] = Some(SavedArchive(pkg[1], fs, loose))]
             /\ pkg' = Some([pkg[1] EXCEPT !.lvp_path = Some(output_path)])
             /\ writer' = [writer EXCEPT ![output_path] =
                              Some([pkg |-> pkg[1],
                                    from |-> IF src = None THEN None ELSE src[1].file])]
             /\ outcome' = [op |-> "save", err |-> "none", file |-> None, ret |-> None]
    /\ saves' = saves + 1
    /\ UNCHANGED <<rawPts, selIn, selOut, loose, src>>

Load ==
    /\ \E path \in Paths, now \in 1..MaxClock :
          LET err == LoadError(fs[path])
          IN IF err # "none"
             THEN /\ outcome' = [op |-> "load", err |-> err, file |-> fs[path],
                                 ret |-> None]
                  /\ UNCHANGED <<pkg, src>>
             ELSE LET made == LoadedPackage(fs[path][1], path, now)
                  IN /\ pkg' = Some(made)
                     /\ src' = Some([file |-> fs[path], writer |-> writer[path]])
                     /\ outcome' = [op |-> "load", err |-> "none", file |-> fs[path],
                                    ret |-> Some(made)]
    /\ UNCHANGED <<rawPts, selIn, selOut, fs, loose, writer, saves>>

Init ==
    /\ rawPts \in VideoCuts
    /\ InitIdle
    /\ fs = NoFiles
    /\ loose = [p \in LoosePaths |-> None]
    /\ writer = NoFiles

Next == Process \/ Save \/ Load

Spec == Init /\ [][Next]_vars

\* C6: a package returned by process() has keyframe_count equal to the
\* number of frames it holds, also when some extractions failed, and so
\* has every archive saved from it.
C6_CountMatchesFrames ==
    /\ (outcome.op = "process" /\ outcome.ret # None) =>
           keyframe_count(outcome.ret[1])
               = Len(get_keyframes(outcome.ret[1], fs, loose))
    /\ \A path \in ArchivePaths :
           (writer[path] # None /\ writer[path][1].from = None) =>
               fs[path][1].manifest.doc[1].content.keyframe_count
                   = Len(fs[path][1].keyframes)

\* C7: in every archive saved from a package process() produced, the
\* keyframe entries are named frame_0000.webp, frame_0001.webp, ... with no
\* gap, and entry i holds the frame captured at keyframe_timestamps[i] of
\* the manifest, also when some extractions failed.
C7_NamesFollowTimestamps ==
    \A path \in ArchivePaths :
        (writer[path] # None /\ writer[path][1].from = None) =>
            LET a == fs[path][1]
                timestamps == a.manifest.doc[1].processing.keyframe_timestamps[1]
            IN \A i \in 1..Len(a.keyframes) :
                  /\ a.keyframes[i].name = FrameName(i - 1)
                  /\ i <= Len(timestamps)
                  /\ a.keyframes[i].data = i - 1

\* the package the last process() call returned
Processed == outcome.op = "process" /\ outcome.ret # None

\* C11: the scenes process() builds tile [0, duration): the first starts
\* at 0.0, each ends where the next starts, no scene ends before it starts,
\* the last ends at the duration, and the scene ids are 0..n-1 in order.
C11_ScenesTile ==
    Processed =>
        LET p == outcome.ret[1]
            n == Len(p.scenes)
        IN /\ n >= 1
           /\ p.scenes[1].start_time = RInt(0)
           /\ p.scenes[n].end_time = p.source_duration
           /\ \A i \in 1..n :
                 /\ p.scenes[i].scene_id = i - 1
                 /\ RLeq(p.scenes[i].start_time, p.scenes[i].end_time)
           /\ \A i \in 1..(n - 1) :
                 p.scenes[i].end_time = p.scenes[i + 1].start_time

\* C12: every selected timestamp is listed in the keyframe_indices of
\* exactly one scene, the one with start <= timestamp < end, and the
\* keyframe_indices of a scene are ascending and lie inside its interval.
C12_OneSceneEach ==
    Processed =>
        LET p == outcome.ret[1]
            inScene(j, sc) == j \in Range(sc.keyframe_indices)
        IN /\ \A j \in 0..(Len(p.keyframe_timestamps) - 1) :
                 Cardinality({i \in 1..Len(p.scenes) : inScene(j, p.scenes[i])}) = 1
           /\ \A i \in 1..Len(p.scenes) :
                 LET sc == p.scenes[i]
                     idx == sc.keyframe_indices
                 IN /\ \A k \in 1..(Len(idx) - 1) : idx[k] < idx[k + 1]
                    /\ \A k \in 1..Len(idx) :
                          /\ idx[k] \in 0..(Len(p.keyframe_timestamps) - 1)
                          /\ RLeq(sc.start_time, p.keyframe_timestamps[idx[k] + 1])
                          /\ RLess(p.keyframe_timestamps[idx[k] + 1], sc.end_time)

\* C14: a package holds at most one of the three frame sources: in-memory
\* buffers, loose-file paths, backing archive; one returned by process()
\* has the buffers only, one returned by load() the archive only.
C14_OneFrameSource ==
    /\ pkg # None =>
           Cardinality({k \in {"memory", "loose", "archive"} :
                           \/ k = "memory" /\ pkg[1].keyframe_data # None
                           \/ k = "loose" /\ pkg[1].keyframe_paths # <<>>
                           \/ k = "archive" /\ pkg[1].lvp_path # None}) <= 1
    /\ Processed =>
           /\ outcome.ret[1].keyframe_data # None
           /\ outcome.ret[1].keyframe_paths = <<>>
           /\ outcome.ret[1].lvp_path = None
    /\ (outcome.op = "load" /\ outcome.ret # None) =>
           /\ outcome.ret[1].keyframe_data = None
           /\ outcome.ret[1].keyframe_paths = <<>>
           /\ outcome.ret[1].lvp_path # None

\* C25: every scene process() builds starts before it ends, and the last
\* scene ends at the duration.
C25_ScenesProper ==
    Processed =>
        LET p == outcome.ret[1]
            n == Len(p.scenes)
        IN /\ \A i \in 1..n : RLess(p.scenes[i].start_time, p.scenes[i].end_time)
           /\ n >= 1 => p.scenes[n].end_time = p.source_duration

(***************************************************************************)
(* Reading the frames of the package at hand.                              *)
(***************************************************************************)
\* the indices callers pass to get_keyframe
Indices == (-1)..(MaxFrames + 1)

GetKeyframes ==
    /\ pkg # None
    /\ outcome' = [op |-> "get_keyframes", err |-> "none", file |-> None,
                   ret |-> Some(get_keyframes(pkg[1], fs, loose)), arg |-> None]
    /\ UNCHANGED <<rawPts, selIn, selOut, pkg, fs, loose, writer, src, saves>>

GetKeyframe ==
    /\ pkg # None
    /\ \E index \in Indices :
          LET keyframes == get_keyframes(pkg[1], fs, loose)
          IN outcome' = IF 0 <= index /\ index < Len(keyframes)
                        THEN [op |-> "get_keyframe", err |-> "none", file |-> None,
                              ret |-> Some(keyframes[index + 1]), arg |-> Some(index)]
                        ELSE [op |-> "get_keyframe", err |-> "IndexError", file |-> None,
                              ret |-> None, arg |-> Some(index)]
    /\ UNCHANGED <<rawPts, selIn, selOut, pkg, fs, loose, writer, src, saves>>

\* process(), then indexed reads of the package it returned
NextIndex == Process \/ GetKeyframe

SpecIndex == Init /\ [][NextIndex]_vars

\* C13: get_keyframe(i) raises IndexError exactly when i is outside
\* [0, keyframe_count), negative i included, and returns frame i otherwise.
C13_IndexChecked ==
    (outcome.op = "get_keyframe" /\ pkg # None) =>
        LET i == outcome.arg[1]
            inside == 0 <= i /\ i < keyframe_count(pkg[1])
        IN /\ outcome.err = "IndexError" <=> ~inside
           /\ inside => /\ outcome.ret # None
                         /\ outcome.ret[1] = get_keyframes(pkg[1], fs, loose)[i + 1]

(***************************************************************************)
(* Packages built directly with the constructor, then saved and loaded.    *)
(***************************************************************************)
\* one more frame than PadWidth digits can number
RECURSIVE Pow10(_)
Pow10(k) == IF k = 0 THEN 1 ELSE 10 * Pow10(k - 1)

ManyFrames == Pow10(PadWidth) + 1

CtorFrameCounts == (0..MaxFrames) \cup {ManyFrames}

\* the packages LVPPackage(...) builds when called directly: n frames in
\* memory or none, m timestamps, loose-file paths and an archive path as
\* the caller gives them
Built(counts, path_lists, archive_paths) ==
    {NewPackage(SourceFilename, RInt(1), SourceResolution, SourceSize,
                keyframe_paths, [k \in 1..m |-> RInt(k - 1)],
                DEVICE_PROFILES["balanced"].resolution, transcript, None,
                "balanced", 0,
                IF in_memory THEN Some([k \in 1..n |-> k - 1]) ELSE None,
                lvp_path, now) :
        <<n, m, in_memory, transcript>> \in
            {c \in counts \X (0..MaxFrames) \X BOOLEAN
                       \X {None, Some(EmptyObject), Some(SpokenTranscript)} :
                c[1] > MaxFrames => (c[2] = 0 /\ c[3] /\ c[4] = None)},
        keyframe_paths \in path_lists, lvp_path \in archive_paths,
        now \in 1..MaxClock}

\* a package with in-memory frames or none, no loose paths, no archive
Construct ==
    /\ pkg = None
    /\ \E made \in Built(CtorFrameCounts, {<<>>}, {None}) :
          /\ pkg' = Some(made)
          /\ outcome' = [op |-> "construct", err |-> "none", file |-> None,
                         ret |-> Some(made)]
    /\ src' = None
    /\ UNCHANGED <<rawPts, selIn, selOut, fs, loose, writer, saves>>

InitCtor ==
    /\ rawPts = <<>>
    /\ InitIdle
    /\ fs = NoFiles
    /\ loose = [p \in LoosePaths |-> None]
    /\ writer = NoFiles

NextCtor == Construct \/ Save \/ Load

SpecCtor == InitCtor /\ [][NextCtor]_vars

\* C1: a package loaded from an archive that save() wrote from a package
\* holding at least one in-memory frame has the same manifest (created_at
\* included), the same frames in the same order, the same transcript and
\* the same scenes as that package.
C1_RoundTrip ==
    (/\ outcome.op = "load"
     /\ outcome.ret # None
     /\ src # None
     /\ src[1].writer # None
     /\ src[1].writer[1].pkg.keyframe_data # None
     /\ src[1].writer[1].pkg.keyframe_data[1] # <<>>) =>
        LET p == src[1].writer[1].pkg
            q == outcome.ret[1]
        IN /\ to_manifest(q) = to_manifest(p)
           /\ get_keyframes(q, fs, loose) = p.keyframe_data[1]
           /\ q.transcript_data = p.transcript_data
           /\ q.scenes = p.scenes

(***************************************************************************)
(* Archives that were not written by save(): produced by another           *)
(* implementation, edited or damaged.                                      *)
(***************************************************************************)
ForeignManifestDocs ==
    {[lvp_version |-> version,
      created_at |-> Some(1),
      source |-> [filename |-> SourceFilename,
                  duration_seconds |-> RInt(1),
                  original_resolution |-> SourceResolution,
                  original_size_bytes |-> SourceSize],
      processing |-> [device_profile |-> Some("balanced"),
                      processing_time_seconds |-> Some(0),
                      keyframe_method |-> "scene_adaptive",
                      keyframe_timestamps |-> timestamps],
      content |-> [keyframe_count |-> declared,
                   keyframe_resolution |-> DEVICE_PROFILES["balanced"].resolution,
                   has_transcript |-> FALSE,
                   scene_count |-> 0]] :
        version \in {LVP_VERSION, "2.0"},
        timestamps \in {Some([k \in 1..m |-> RInt(k - 1)]) : m \in 0..MaxFrames},
        declared \in 0..MaxFrames}

\* keyframe entries frame_<i>.webp, written in ascending or descending order
ForeignKeyframes ==
    {[k \in 1..len |-> [name |-> FrameName(k - 1), data |-> k - 1]] : len \in 0..MaxFrames}
    \cup {[k \in 1..len |-> [name |-> FrameName(len - k), data |-> len - k]] :
             len \in 0..MaxFrames}

ForeignArchives ==
    [manifest : {AbsentEntry, GarbageEntry} \cup {JsonEntry(d) : d \in ForeignManifestDocs},
     keyframes : ForeignKeyframes,
     transcript : {AbsentEntry, GarbageEntry, JsonEntry(EmptyObject),
                   JsonEntry(SpokenTranscript)},
     scenes : {AbsentEntry, JsonEntry([scenes |-> None]),
               JsonEntry([scenes |-> Some(<<>>)])}]

InitLoad ==
    /\ rawPts = <<>>
    /\ InitIdle
    /\ \E a \in ForeignArchives : fs = [NoFiles EXCEPT ![<<"a", ".lvp">>] = Some(a)]
    /\ loose = [p \in LoosePaths |-> None]
    /\ writer = NoFiles

NextLoad == Load \/ Save

SpecLoad == InitLoad /\ [][NextLoad]_vars

\* a load() call on an existing file has just ended
LoadCalled == outcome.op = "load" /\ outcome.file # None
LoadFailed == outcome.err # "none" /\ outcome.ret = None

\* C2: a package q loaded from an archive A, saved again and loaded from
\* the new archive has the frames of A in the same order and a manifest
\* equal, field for field, to the manifest.json of A.
C2_ResaveIdempotent ==
    (/\ outcome.op = "load"
     /\ outcome.ret # None
     /\ src # None
     /\ src[1].writer # None
     /\ src[1].writer[1].from # None) =>
        LET A == src[1].writer[1].from[1]
            r == outcome.ret[1]
        IN /\ get_keyframes(r, fs, loose) = SortedFrames(A.keyframes)
           /\ ManifestDoc(to_manifest(r)) = A.manifest.doc[1]

\* C3: load() fails, and returns no package, whenever the number of
\* keyframe entries differs from manifest.content.keyframe_count.
C3_CountMismatchRejected ==
    (/\ LoadCalled
     /\ outcome.file[1].manifest.kind = "json"
     /\ Len(outcome.file[1].keyframes)
            # outcome.file[1].manifest.doc[1].content.keyframe_count) => LoadFailed

\* C4: load() of an archive without manifest.json, transcript.json or
\* scenes.json, or with an unparsable manifest.json, raises and returns no
\* package.
C4_MissingEntryRejected ==
    (/\ LoadCalled
     /\ \/ outcome.file[1].manifest.kind # "json"
        \/ outcome.file[1].transcript.kind = "absent"
        \/ outcome.file[1].scenes.kind = "absent") => LoadFailed

\* C4 witness: load() raised KeyError on an archive whose only defect is
\* the missing transcript.json, and returned nothing.
C4_Witness ==
    /\ LoadCalled
    /\ outcome.file[1].manifest.kind = "json"
    /\ outcome.file[1].transcript.kind = "absent"
    /\ outcome.file[1].scenes.kind = "json"
    /\ outcome.err = "KeyError"
    /\ outcome.ret = None

\* C5: load() of an archive whose manifest.lvp_version is not "1.0" raises
\* and returns no package.
C5_UnknownVersionRejected ==
    (/\ LoadCalled
     /\ outcome.file[1].manifest.kind = "json"
     /\ outcome.file[1].manifest.doc[1].lvp_version # LVP_VERSION) => LoadFailed

(***************************************************************************)
(* Frame sources: packages built with any combination of in-memory frames, *)
(* loose-file paths and archive path, on a disk where some of the loose    *)
(* files and an archive may exist.                                         *)
(***************************************************************************)
\* the bytes of the loose frame files
LooseContent == [f0 |-> -1, f1 |-> -2]

LooseStates == [LoosePaths -> {"absent", "present"}]

CtorPathLists == {<<>>} \cup {<<f>> : f \in LoosePaths} \cup (LoosePaths \X LoosePaths)

CtorArchivePaths == {None} \cup {Some(path) : path \in ArchivePaths}

\* well-formed archives of 0..MaxFrames frames
ReadableArchives ==
    {a \in ForeignArchives :
        /\ a.manifest.kind = "json"
        /\ a.manifest.doc[1].lvp_version = LVP_VERSION
        /\ a.manifest.doc[1].content.keyframe_count = Len(a.keyframes)
        /\ Len(a.manifest.doc[1].processing.keyframe_timestamps[1]) = Len(a.keyframes)
        /\ a.transcript = JsonEntry(EmptyObject)
        /\ a.scenes = JsonEntry([scenes |-> Some(<<>>)])}

InitFrames ==
    /\ rawPts = <<>>
    /\ InitIdle
    /\ fs \in {NoFiles} \cup {[NoFiles EXCEPT ![<<"a", ".lvp">>] = Some(a)] :
                                a \in ReadableArchives}
    /\ \E st \in LooseStates :
          loose = [f \in LoosePaths |->
                      IF st[f] = "present" THEN Some(LooseContent[f]) ELSE None]
    /\ writer = NoFiles

ConstructAny ==
    /\ pkg = None
    /\ \E made \in Built(0..MaxFrames, CtorPathLists, CtorArchivePaths) :
          /\ pkg' = Some(made)
          /\ outcome' = [op |-> "construct", err |-> "none", file |-> None,
                         ret |-> Some(made)]
    /\ src' = None
    /\ UNCHANGED <<rawPts, selIn, selOut, fs, loose, writer, saves>>

NextFrames == ConstructAny \/ GetKeyframes

SpecFrames == InitFrames /\ [][NextFrames]_vars

\* shorthands for the package at hand
HasArchive == pkg[1].lvp_path # None /\ fs[pkg[1].lvp_path[1]] # None
ExistingLoose == SelectSeq(pkg[1].keyframe_paths, LAMBDA f : loose[f] # None)

\* C15: get_keyframes() never raises; it returns the in-memory buffers
\* when they are present, otherwise the frames of the backing archive when
\* its file exists, otherwise the contents of the loose files that exist,
\* and the empty list when none of the three is available.
C15_SourcePriority ==
    (outcome.op = "get_keyframes" /\ pkg # None) =>
        /\ outcome.err = "none"
        /\ outcome.ret # None
        /\ LET ret == outcome.ret[1]
               p == pkg[1]
           IN /\ p.keyframe_data # None => ret = p.keyframe_data[1]
              /\ (p.keyframe_data = None /\ HasArchive) =>
                    ret = SortedFrames(fs[p.lvp_path[1]][1].keyframes)
              /\ (p.keyframe_data = None /\ ~HasArchive) =>
                    /\ Len(ret) = Len(ExistingLoose)
                    /\ \A k \in 1..Len(ret) : ret[k] = loose[ExistingLoose[k]][1]
              /\ (p.keyframe_data = None /\ ~HasArchive /\ ExistingLoose = <<>>) =>
                    ret = <<>>

\* C15 witness: with no in-memory buffers, get_keyframes() returned the
\* frames of the existing archive although loose files exist as well.
C15_Witness ==
    /\ outcome.op = "get_keyframes"
    /\ pkg # None
    /\ pkg[1].keyframe_data = None
    /\ HasArchive
    /\ ExistingLoose # <<>>
    /\ outcome.ret[1] # <<>>
    /\ outcome.ret[1] = SortedFrames(fs[pkg[1].lvp_path[1]][1].keyframes)

(***************************************************************************)
(* Derived views: summary(), to_manifest(), to_llm_prompt().               *)
(***************************************************************************)
\* round(a, digits) and the format spec .<digits>f: the nearest multiple of
\* 10^-digits, ties to the even one
Round(a, digits) ==
    LET scale == Pow10(digits)
        q == (a.n * scale) \div a.d
        r == (a.n * scale) % a.d
        up == 2 * r > a.d \/ (2 * r = a.d /\ q % 2 = 1)
    IN Rat(IF up THEN q + 1 ELSE q, scale)

\* the value summary() reports in place of a size or a ratio: 'not saved'
NotSaved == None

\* lvp_size in summary(): 0, or what os.path.getsize reports when the
\* archive path is set and the file exists
LvpSize(p, files, reported) ==
    IF p.lvp_path # None /\ files[p.lvp_path[1]] # None THEN reported ELSE 0

\* a summary() that reports 0 where there is no size to divide by
SummarySilentZero(p, lvp_size) ==
    [source_file |-> p.source_filename,
     duration_seconds |-> Round(p.source_duration, 2),
     original_size_mb |-> Round(Rat(p.source_size, 1024 * 1024), 2),
     lvp_size_kb |-> IF lvp_size # 0 THEN Some(Round(Rat(lvp_size, 1024), 2))
                     ELSE NotSaved,
     compression_ratio |-> IF lvp_size # 0
                           THEN Some(Round(Rat(p.source_size, lvp_size), 1))
                           ELSE Some(RInt(0)),
     keyframes |-> keyframe_count(p),
     scenes |-> scene_count(p),
     has_transcript |-> has_transcript(p),
     profile |-> p.profile_name,
     processing_time_seconds |-> Round(RInt(p.processing_time), 2)]

summary(p, lvp_size) ==
    [source_file |-> p.source_filename,
     duration_seconds |-> Round(p.source_duration, 2),
     original_size_mb |-> Round(Rat(p.source_size, 1024 * 1024), 2),
     lvp_size_kb |-> IF lvp_size # 0 THEN Some(Round(Rat(lvp_size, 1024), 2))
                     ELSE NotSaved,
     compression_ratio |-> IF lvp_size # 0
                           THEN Some(Round(Rat(p.source_size, lvp_size), 1))
                           ELSE NotSaved,
     keyframes |-> keyframe_count(p),
     scenes |-> scene_count(p),
     has_transcript |-> has_transcript(p),
     profile |-> p.profile_name,
     processing_time_seconds |-> Round(RInt(p.processing_time), 2)]

\* the sections of the text to_llm_prompt() builds, in order
to_llm_prompt(p) ==
    <<[section |-> "Source Information",
       file |-> p.source_filename,
       duration |-> Round(p.source_duration, 1),
       resolution |-> p.source_resolution,
       keyframes |-> keyframe_count(p),
       scenes |-> scene_count(p)]>>
    \o (IF has_transcript(p)
        THEN <<[section |-> "Transcript",
                text |-> Get(p.transcript_data.full_text, EmptyText)]>>
        ELSE <<>>)
    \o (IF p.scenes # <<>>
        THEN <<[section |-> "Scene Breakdown",
                lines |-> [i \in 1..Len(p.scenes) |->
                             [scene_id |-> p.scenes[i].scene_id,
                              start |-> Round(p.scenes[i].start_time, 1),
                              end |-> Round(p.scenes[i].end_time, 1),
                              duration |-> Round(RSub(p.scenes[i].end_time,
                                                      p.scenes[i].start_time), 1),
                              keyframes |-> Len(p.scenes[i].keyframe_indices)]]]>>
        ELSE <<>>)

ArchiveSizes == 0..MaxArchiveSize

Summary ==
    /\ pkg # None
    /\ \E reported \in ArchiveSizes :
          LET lvp_size == LvpSize(pkg[1], fs, reported)
          IN outcome' = [op |-> "summary", err |-> "none", file |-> None,
                         ret |-> Some(summary(pkg[1], lvp_size)), arg |-> Some(lvp_size)]
    /\ UNCHANGED <<rawPts, selIn, selOut, pkg, fs, loose, writer, src, saves>>

ToManifest ==
    /\ pkg # None
    /\ outcome' = [op |-> "to_manifest", err |-> "none", file |-> None,
                   ret |-> Some(to_manifest(pkg[1])), arg |-> None]
    /\ UNCHANGED <<rawPts, selIn, selOut, pkg, fs, loose, writer, src, saves>>

ToLlmPrompt ==
    /\ pkg # None
    /\ outcome' = [op |-> "to_llm_prompt", err |-> "none", file |-> None,
                   ret |-> Some(to_llm_prompt(pkg[1])), arg |-> None]
    /\ UNCHANGED <<rawPts, selIn, selOut, pkg, fs, loose, writer, src, saves>>

(***************************************************************************)
(* lvp.process(video_path, output, profile, transcribe, target_keyframes): *)
(* builds the processor for the profile, runs its pipeline and saves the   *)
(* package when an output path is given.                                   *)
(***************************************************************************)
\* a profile name that is not in the registry
UnknownProfile == "ultra"

\* the profile argument: the default, or an unknown name
LvpProfiles == {"balanced", UnknownProfile}

Outputs == {None} \cup {Some(path) : path \in SaveArgs}

\* a pipeline that probes the video before testing that it exists
PipelineStagesProbeFirst(profile, installed, video, transcribe, output) ==
    IF profile \notin ProfileNames THEN <<"profile">>
    ELSE IF ~installed THEN <<"profile", "dependencies">>
    ELSE IF video = "missing" THEN <<"profile", "dependencies", "probe", "exists">>
    ELSE IF video = "unreadable" THEN <<"profile", "dependencies", "probe">>
    ELSE IF video = "no_video_stream"
    THEN <<"profile", "dependencies", "probe", "exists", "video_stream">>
    ELSE <<"profile", "dependencies", "probe", "exists", "video_stream",
           "detect_scenes", "select", "extract">>
         \o (IF transcribe THEN <<"transcribe">> ELSE <<>>)
         \o <<"scenes", "package">>
         \o (IF output # None THEN <<"save">> ELSE <<>>)

\* the steps lvp.process takes, in order, up to the one that raises
PipelineStages(profile, installed, video, transcribe, output) ==
    IF profile \notin ProfileNames THEN <<"profile">>
    ELSE IF ~installed THEN <<"profile", "dependencies">>
    ELSE IF video = "missing" THEN <<"profile", "dependencies", "exists">>
    ELSE IF video = "unreadable" THEN <<"profile", "dependencies", "exists", "probe">>
    ELSE IF video = "no_video_stream"
    THEN <<"profile", "dependencies", "exists", "probe", "video_stream">>
    ELSE <<"profile", "dependencies", "exists", "probe", "video_stream",
           "detect_scenes", "select", "extract">>
         \o (IF transcribe THEN <<"transcribe">> ELSE <<>>)
         \o <<"scenes", "package">>
         \o (IF output # None THEN <<"save">> ELSE <<>>)

\* the exception lvp.process raises, "none" if it raises none; installed
\* tells whether `ffmpeg -version` runs
PipelineError(profile, installed, video) ==
    IF profile \notin ProfileNames THEN "ValueError"
    ELSE IF ~installed THEN "RuntimeError"
    ELSE ProcessError(video)

\* called as the first call of a run
LvpProcess ==
    /\ pkg = None
    /\ outcome = NoCall
    /\ \E profile \in LvpProfiles, installed \in BOOLEAN, video \in VideoKinds,
          transcribe \in BOOLEAN, extracted \in TranscriptResults, output \in Outputs :
          LET err == PipelineError(profile, installed, video)
              call == [profile |-> profile, installed |-> installed, video |-> video,
                       transcribe |-> transcribe, extracted |-> extracted,
                       output |-> output]
              stages == PipelineStages(profile, installed, video, transcribe, output)
          IN IF err # "none"
             THEN /\ outcome' = [op |-> "lvp.process", err |-> err, file |-> None,
                                 ret |-> None, arg |-> Some(call), stages |-> stages]
                  /\ UNCHANGED <<pkg, fs, writer, saves>>
             ELSE \E duration \in 0..MaxVideoDuration,
                     target \in {None} \cup {Some(k) : k \in 0..MaxVideoTarget},
                     now \in 1..MaxClock :
                     LET count == Len(SelectKeyframeTimestamps(
                                         RInt(duration), DetectScenes(rawPts), target,
                                         DEVICE_PROFILES[profile].keyframes_per_minute))
                     IN \E failed \in SUBSET (0..(count - 1)) :
                           LET made == ProcessPackage(
                                           profile, RInt(duration), rawPts, target, failed,
                                           IF transcribe THEN extracted ELSE None, 0, now)
                               saved == [made EXCEPT !.lvp_path = Some(OutputPath(output[1]))]
                           IN /\ IF output = None
                                 THEN /\ pkg' = Some(made)
                                      /\ UNCHANGED <<fs, writer, saves>>
                                 ELSE /\ fs' = [fs EXCEPT ![OutputPath(output[1])] =
                                                   Some(SavedArchive(made, fs, loose))]
                                      /\ pkg' = Some(saved)
                                      /\ writer' = [writer EXCEPT ![OutputPath(output[1])] =
                                                       Some([pkg |-> made, from |-> None])]
                                      /\ saves' = saves + 1
                              /\ outcome' = [op |-> "lvp.process", err |-> "none",
                                             file |-> None, ret |-> pkg',
                                             arg |-> Some(call), stages |-> stages]
    /\ src' = None
    /\ UNCHANGED <<rawPts, selIn, selOut, loose>>

NextPipeline == LvpProcess \/ ToLlmPrompt

\* a video without scene cuts, or with one cut at 1.0 s; nothing on disk
InitPipeline ==
    /\ rawPts \in {<<>>, <<1>>}
    /\ InitIdle
    /\ fs = NoFiles
    /\ loose = [p \in LoosePaths |-> None]
    /\ writer = NoFiles

SpecPipeline == InitPipeline /\ [][NextPipeline]_vars

\* shorthands for the lvp.process call that has just ended
Piped == outcome.op = "lvp.process"
PipedOk ==
    /\ Piped
    /\ outcome.arg[1].profile \in ProfileNames
    /\ outcome.arg[1].installed
    /\ outcome.arg[1].video = "ok"
Unavailable ==
    \/ ~outcome.arg[1].transcribe
    \/ outcome.arg[1].extracted = None
    \/ outcome.arg[1].extracted = Some(WhisperMissingTranscript)
IsPlaceholder(text) == text = EmptyText \/ StartsWithBracket(text)

\* C18: when transcription is disabled, audio extraction fails or the
\* transcriber is not installed, process still returns a package whose
\* text is empty or '['-marked and whose has_transcript, also in the
\* manifest, is false; save still writes transcript.json; to_llm_prompt
\* has a transcript section only when has_transcript is true.
C18_TranscriptOptional ==
    /\ (PipedOk /\ Unavailable) =>
           /\ outcome.err = "none"
           /\ outcome.ret # None
           /\ IsPlaceholder(Get(outcome.ret[1].transcript_data.full_text, EmptyText))
           /\ ~has_transcript(outcome.ret[1])
           /\ ~to_manifest(outcome.ret[1]).content.has_transcript
           /\ outcome.arg[1].output # None =>
                 LET a == fs[OutputPath(outcome.arg[1].output[1])]
                 IN /\ a # None
                    /\ a[1].transcript = JsonEntry(outcome.ret[1].transcript_data)
                    /\ ~a[1].manifest.doc[1].content.has_transcript
    /\ (outcome.op = "to_llm_prompt" /\ pkg # None) =>
           ((\E k \in 1..Len(outcome.ret[1]) : outcome.ret[1][k].section = "Transcript")
               => has_transcript(pkg[1]))

\* C18 witness: with the transcriber not installed, lvp.process returned a
\* package holding the '['-marked placeholder and saved it.
C18_Witness ==
    /\ PipedOk
    /\ outcome.arg[1].transcribe
    /\ outcome.arg[1].extracted = Some(WhisperMissingTranscript)
    /\ outcome.arg[1].output # None
    /\ outcome.ret # None
    /\ outcome.ret[1].transcript_data = WhisperMissingTranscript
    /\ fs[OutputPath(outcome.arg[1].output[1])] # None

\* the steps that follow the fatal checks
LaterStages == {"detect_scenes", "select", "extract", "transcribe", "scenes", "package", "save"}

\* C19: with a profile name that is not in the registry, a video path
\* that does not exist or a video without video stream, lvp.process raises
\* at that check, no later step runs, no package is returned and nothing is
\* written; a missing video is detected before the probe.
C19_FatalAborts ==
    Piped =>
        LET call == outcome.arg[1]
            stages == outcome.stages
            unknown == call.profile \notin ProfileNames
            ready == ~unknown /\ call.installed
        IN /\ (unknown \/ call.video \in {"missing", "no_video_stream"}) =>
                 /\ outcome.err # "none"
                 /\ outcome.ret = None
                 /\ pkg = None
                 /\ fs = NoFiles
                 /\ Range(stages) \cap LaterStages = {}
           /\ unknown => outcome.err = "ValueError" /\ stages = <<"profile">>
           /\ call.video = "missing" => "probe" \notin Range(stages)
           /\ (ready /\ call.video = "missing") =>
                 /\ outcome.err = "FileNotFoundError"
                 /\ stages[Len(stages)] = "exists"
           /\ (ready /\ call.video = "no_video_stream") =>
                 /\ outcome.err = "ValueError"
                 /\ stages[Len(stages)] = "video_stream"

\* C19 witness: lvp.process was called with an output path on a video
\* path that does not exist, raised FileNotFoundError and wrote nothing.
C19_Witness ==
    /\ Piped
    /\ outcome.arg[1].profile \in ProfileNames
    /\ outcome.arg[1].installed
    /\ outcome.arg[1].video = "missing"
    /\ outcome.arg[1].output # None
    /\ outcome.err = "FileNotFoundError"
    /\ fs = NoFiles

(***************************************************************************)
(* A package right after its creation, by process() or by load(), and the  *)
(* calls made on it afterwards.                                            *)
(***************************************************************************)
\* packages process() returns with the default profile for a video without
\* scene cuts: the automatic target or the largest explicit one, the first
\* frame extracted or not
CreatedByProcess ==
    {ProcessPackage("balanced", RInt(duration), <<>>, target, failed, transcript, 0, now) :
        duration \in 0..MaxVideoDuration,
        target \in {None, Some(MaxVideoTarget)}, failed \in SUBSET {0},
        transcript \in TranscriptResults, now \in 1..MaxClock}

\* well-formed archives, with or without speech
LoadableArchives ==
    {a \in ForeignArchives :
        /\ a.manifest.kind = "json"
        /\ a.manifest.doc[1].lvp_version = LVP_VERSION
        /\ a.manifest.doc[1].content.keyframe_count = Len(a.keyframes)
        /\ Len(a.manifest.doc[1].processing.keyframe_timestamps[1]) = Len(a.keyframes)
        /\ a.transcript.kind = "json"
        /\ a.scenes = JsonEntry([scenes |-> Some(<<>>)])}

InitCreated ==
    /\ rawPts = <<>>
    /\ selIn = None
    /\ selOut = None
    /\ saves = 0
    /\ loose = [p \in LoosePaths |-> None]
    /\ writer = NoFiles
    /\ \/ \E made \in CreatedByProcess :
             /\ pkg = Some(made)
             /\ fs = NoFiles
             /\ src = None
             /\ outcome = [op |-> "process", err |-> "none", file |-> None,
                           ret |-> Some(made)]
       \/ \E a \in LoadableArchives, now \in 1..MaxClock :
             LET path == <<"b", ".lvp">>
                 made == LoadedPackage(a, path, now)
             IN /\ pkg = Some(made)
                /\ fs = [NoFiles EXCEPT ![path] = Some(a)]
                /\ src = Some([file |-> Some(a), writer |-> None])
                /\ outcome = [op |-> "load", err |-> "none", file |-> Some(a),
                              ret |-> Some(made)]

NextUse == Save \/ GetKeyframes \/ GetKeyframe \/ Summary \/ ToManifest \/ ToLlmPrompt

SpecUse == InitCreated /\ [][NextUse]_vars

\* C16: once a package is created, no get_keyframes, get_keyframe,
\* summary, to_manifest, to_llm_prompt or save call changes to_manifest()
\* or any other field of it, the backing-archive path apart, and only save
\* changes that path.
C16_Immutable ==
    [][(pkg # None /\ pkg' # None) =>
          /\ to_manifest(pkg'[1]) = to_manifest(pkg[1])
          /\ [pkg'[1] EXCEPT !.lvp_path = pkg[1].lvp_path] = pkg[1]
          /\ pkg'[1].lvp_path # pkg[1].lvp_path => outcome'.op = "save"]_vars

\* C16 witness: a package created by process() was saved to one path and
\* then to another.
C16_Witness ==
    /\ outcome.op = "save"
    /\ src = None
    /\ pkg # None
    /\ pkg[1].lvp_path = Some(<<"b", ".lvp">>)
    /\ writer[<<"a", ".lvp">>] # None
    /\ writer[<<"b", ".lvp">>] # None

\* shorthands for the summary() call that has just returned
Summarized == outcome.op = "summary" /\ pkg # None
Persisted == HasArchive /\ outcome.arg[1] > 0

\* C17 as stated: summary() reports compression_ratio = original size /
\* archive size when the package has an archive on disk, and 'not saved'
\* otherwise.
C17_Original ==
    Summarized =>
        outcome.ret[1].compression_ratio =
            IF Persisted THEN Some(Rat(pkg[1].source_size, outcome.arg[1])) ELSE NotSaved

\* C17 amended: summary() reports original size / archive size rounded to
\* one decimal place when the archive path is set and the file exists with
\* a size above 0, and 'not saved', never 0, otherwise.
C17_Amended ==
    Summarized =>
        /\ outcome.err = "none"
        /\ outcome.ret[1].compression_ratio =
               IF Persisted THEN Some(Round(Rat(pkg[1].source_size, outcome.arg[1]), 1))
               ELSE NotSaved
        /\ ~Persisted => outcome.ret[1].compression_ratio # Some(RInt(0))

\* C17 witness: for a saved package whose archive has 3 bytes summary()
\* reported 333333.3, the rounding of 1000000 / 3.
C17_Witness ==
    /\ Summarized
    /\ outcome.arg[1] = MaxArchiveSize
    /\ writer[pkg[1].lvp_path[1]] # None
    /\ outcome.ret[1].compression_ratio # Some(Rat(pkg[1].source_size, MaxArchiveSize))
    /\ outcome.ret[1].compression_ratio
           = Some(Round(Rat(pkg[1].source_size, MaxArchiveSize), 1))

(***************************************************************************)
(* The selector on minute-long videos: durations of whole half minutes,    *)
(* cuts at 30 s, 45 s and 90 s, the target derived from one of the two     *)
(* sparser profiles.                                                       *)
(***************************************************************************)
ScenarioDurations == {0, 30, 60, 90, 120}
ScenarioCuts == {<<>>, <<30>>, <<45>>, <<90>>, <<30, 45>>, <<30, 90>>, <<45, 90>>, <<30, 45, 90>>}
ScenarioProfiles == {"minimal", "balanced"}

InitScenarios ==
    /\ rawPts \in ScenarioCuts
    /\ InitIdle
    /\ fs = NoFiles
    /\ loose = [p \in LoosePaths |-> None]
    /\ writer = NoFiles

CallScenario ==
    /\ selIn = None
    /\ \E duration \in ScenarioDurations, prof \in ScenarioProfiles :
          selIn' = Some([duration |-> RInt(duration),
                         scene_times |-> DetectScenes(rawPts),
                         target |-> None,
                         kpm |-> DEVICE_PROFILES[prof].keyframes_per_minute])
    /\ UNCHANGED <<rawPts, selOut, pkg, fs, loose, writer, src, outcome, saves>>

\* the scene records process() builds from the boundaries and the selection
BuildScenario ==
    /\ selIn # None
    /\ selOut # None
    /\ outcome = NoCall
    /\ outcome' = [op |-> "scenes", err |-> "none", file |-> None,
                   ret |-> Some(BuildScenes(selIn[1].scene_times, selIn[1].duration,
                                            selOut[1]))]
    /\ UNCHANGED <<rawPts, selIn, selOut, pkg, fs, loose, writer, src, saves>>

NextScenarios == CallScenario \/ ReturnSelect \/ BuildScenario

SpecScenarios == InitScenarios /\ [][NextScenarios]_vars

ScenarioA ==
    /\ SelDone
    /\ selIn[1].duration = RInt(120)
    /\ selIn[1].scene_times = <<RInt(0), RInt(45), RInt(90)>>
    /\ selIn[1].kpm = 12
    /\ selIn[1].target = None

\* C20: for duration 120, boundaries [0, 45, 90], 12 keyframes per minute
\* and no explicit target, the target count is 24, the minimum gap 2.5 and
\* the result exactly the 24 timestamps 0, 5, ..., 115, with no thinning.
C20_ScenarioA ==
    ScenarioA =>
        /\ SelTc = 24
        /\ MinGap(selIn[1].duration, SelTc) = Rat(5, 2)
        /\ selOut[1] = [k \in 1..24 |-> RInt(5 * (k - 1))]
        /\ Range(selIn[1].scene_times) \subseteq Range(selOut[1])
        /\ ~SelThinned

\* C20 witness: the selector returned 24 timestamps for scenario A.
C20_Witness == ScenarioA /\ Len(selOut[1]) = 24

ScenarioB ==
    /\ SelDone
    /\ selIn[1].duration = RInt(0)
    /\ selIn[1].scene_times = <<RInt(0)>>
    /\ selIn[1].target = None

\* C21: for duration 0, boundaries [0.0] and no explicit target, the target
\* count is 1, no division of the call has a zero divisor, the selector
\* returns exactly [0.0] and scene building yields the single scene with
\* id 0, start 0.0 and end 0.0.
C21_ScenarioB ==
    ScenarioB =>
        /\ SelTc = 1
        /\ 0 \notin SelectDivisors(selIn[1].duration, selIn[1].scene_times,
                                   selIn[1].target, selIn[1].kpm)
        /\ selOut[1] = <<RInt(0)>>
        /\ outcome.op = "scenes" =>
              /\ outcome.err = "none"
              /\ Len(outcome.ret[1]) = 1
              /\ outcome.ret[1][1].scene_id = 0
              /\ outcome.ret[1][1].start_time = RInt(0)
              /\ outcome.ret[1][1].end_time = RInt(0)

\* C21 witness: the scenes of scenario B have been built.
C21_Witness == ScenarioB /\ outcome.op = "scenes" /\ Len(outcome.ret[1]) = 1

(***************************************************************************)
(* process() with its extractor calls on record: one ffmpeg run per        *)
(* iteration of the loop of _extract_keyframes.                            *)
(***************************************************************************)
ExtractorCalls(timestamps, failed) ==
    [k \in 1..Len(timestamps) |->
        [index |-> k - 1, ts |-> timestamps[k], ok |-> (k - 1) \notin failed]]

ProcessVideo ==
    /\ pkg = None
    /\ outcome = NoCall
    /\ \E duration \in 0..MaxVideoDuration,
          target \in {None} \cup {Some(k) : k \in 0..MaxVideoTarget},
          now \in 1..MaxClock :
          LET timestamps == SelectKeyframeTimestamps(
                                RInt(duration), DetectScenes(rawPts), target,
                                DEVICE_PROFILES[DefaultProfile].keyframes_per_minute)
          IN \E failed \in SUBSET (0..(Len(timestamps) - 1)) :
                LET made == ProcessPackage(DefaultProfile, RInt(duration), rawPts,
                                           target, failed, None, 0, now)
                IN /\ pkg' = Some(made)
                   /\ outcome' = [op |-> "process", err |-> "none", file |-> None,
                                  ret |-> Some(made), arg |-> Some(failed),
                                  calls |-> ExtractorCalls(timestamps, failed)]
    /\ UNCHANGED <<rawPts, selIn, selOut, fs, loose, writer, src, saves>>

NextExtract == ProcessVideo \/ GetKeyframes

SpecExtract == Init /\ [][NextExtract]_vars

\* C26: process() runs the extractor once per selected timestamp, in
\* ascending timestamp order; a failed extraction is not repeated and does
\* not stop the run, and the package returned holds exactly the frames
\* that were extracted, in timestamp order.
C26_ExtractEachOnce ==
    /\ outcome.op = "process" =>
           LET calls == outcome.calls
               p == outcome.ret[1]
               done == SelectSeq(calls, LAMBDA c : c.ok)
           IN /\ outcome.err = "none"
              /\ Len(calls) = Len(p.keyframe_timestamps)
              /\ \A k \in 1..Len(calls) : calls[k].ts = p.keyframe_timestamps[k]
              /\ \A k \in 1..(Len(calls) - 1) : RLess(calls[k].ts, calls[k + 1].ts)
              /\ p.keyframe_data = Some([k \in 1..Len(done) |-> done[k].index])
    /\ (outcome.op = "get_keyframes" /\ pkg # None) =>
           \A k \in 1..(Len(outcome.ret[1]) - 1) :
               /\ outcome.ret[1][k] < outcome.ret[1][k + 1]
               /\ RLess(pkg[1].keyframe_timestamps[outcome.ret[1][k] + 1],
                        pkg[1].keyframe_timestamps[outcome.ret[1][k + 1] + 1])

\* C26 witness: an extraction failed, a later one succeeded, and the
\* package returned holds fewer frames than timestamps.
C26_Witness ==
    /\ outcome.op = "process"
    /\ \E i, j \in 1..Len(outcome.calls) :
          i < j /\ ~outcome.calls[i].ok /\ outcome.calls[j].ok
    /\ outcome.ret[1].keyframe_data[1] # <<>>
    /\ Len(outcome.ret[1].keyframe_data[1]) < Len(outcome.ret[1].keyframe_timestamps)

====
